---- MODULE Spec2Model ----
(***************************************************************************)
(* A model of the rust-file-explorer application state (src/src/app.rs),   *)
(* its filesystem node reader (src/src/fs_utils.rs) and the update entry   *)
(* point the iced runtime calls (src/src/ui.rs, src/src/bin/iced.rs), and  *)
(* the frame of the eframe application (src/src/ui.rs).                    *)
(* The pane grid, the colour mode and the syntax highlighting data are     *)
(* display state that no navigation, search or modal operation reads; they *)
(* and Action::PanesResized are not part of the model.                     *)
(*                                                                         *)
(* Strings are sequences of character codes (ASCII), so that               *)
(* to_lowercase, trim, contains and the byte-wise string comparison are    *)
(* computed as the standard library computes them.  A path is the sequence *)
(* of its components; the filesystem root "/" is the empty path.           *)
(* Option<T> is a sequence of length 0 (None) or 1 (Some(x)).              *)
(* Result<T, E> is a record [ok, v].                                       *)
(***************************************************************************)
EXTENDS Integers, Sequences, FiniteSets, TLC

VARIABLES
    app,        \* FileExplorerApp: the fields of the application state
    fs,         \* the operating system's filesystem: path -> access status
    tasks,      \* every Task created by DebouncedSearch, in creation order
    queue,      \* messages produced by tasks the runtime runs, not yet applied
    io_errs,    \* number of directory-enumeration errors the OS has produced
    fs_changes, \* number of filesystem changes that happened so far
    crashed,    \* TRUE once the process has panicked
    frame,      \* eframe::App::update in progress: Some(the action its rendering pass collected)
    last        \* the last action update() applied, and facts of the state before it

vars == <<app, fs, tasks, queue, io_errs, fs_changes, crashed, frame, last>>

(***************************************************************************)
(* Bounds of the model.                                                    *)
(***************************************************************************)
MaxSearches == 2
MaxFsChanges == 1
MaxIoErrors == 1
\* The info modal is asked for the entries 1..MaxInfoIndex of the listing.
MaxInfoIndex == 1

(***************************************************************************)
(* Option and Result.                                                      *)
(***************************************************************************)
None == <<>>
Some(x) == <<x>>
IsSome(o) == Len(o) = 1
Unwrap(o) == o[1]

Ok(x) == [ok |-> TRUE, v |-> x]
Err(e) == [ok |-> FALSE, v |-> e]

(***************************************************************************)
(* Strings: str::to_lowercase, str::trim, str::contains and Ord for str.   *)
(***************************************************************************)
to_lowercase_char(c) == IF c >= 65 /\ c <= 90 THEN c + 32 ELSE c

to_lowercase(s) == [i \in 1..Len(s) |-> to_lowercase_char(s[i])]

is_whitespace(c) == c \in {9, 10, 11, 12, 13, 32}

trim(s) ==
    LET keep == {i \in 1..Len(s) : ~is_whitespace(s[i])}
    IN  IF keep = {} THEN <<>>
        ELSE LET lo == CHOOSE i \in keep : \A j \in keep : i <= j
                 hi == CHOOSE i \in keep : \A j \in keep : i >= j
             IN  SubSeq(s, lo, hi)

contains(s, pat) ==
    \E i \in 1..(Len(s) - Len(pat) + 1) : SubSeq(s, i, i + Len(pat) - 1) = pat

\* Ordering::Less of a.cmp(b) on strings: byte-wise lexicographic.
str_less(a, b) ==
    \E i \in 1..(Len(b)) :
        /\ \A j \in 1..(i - 1) : j <= Len(a) /\ a[j] = b[j]
        /\ \/ i = Len(a) + 1
           \/ i <= Len(a) /\ a[i] < b[i]

(***************************************************************************)
(* The filesystem the program runs in.  Its shape is fixed:                *)
(*     /            directory                                              *)
(*     /d           directory (empty)                                      *)
(*     /h           directory, the working directory at startup            *)
(*     /h/A         directory                                              *)
(*     /h/A/L       symbolic link to /d                                    *)
(*     /h/B.t       file                                                   *)
(*     /h/a.t       file                                                   *)
(* and what changes is whether a path can be accessed (fs).                *)
(***************************************************************************)
NameA == <<65>>
NameL == <<76>>
NameD == <<100>>
NameH == <<104>>
NameAt == <<97, 46, 116>>
NameBt == <<66, 46, 116>>

Root == <<>>
PathD == <<NameD>>
PathH == <<NameH>>
PathA == <<NameH, NameA>>
PathBt == <<NameH, NameBt>>
PathL == <<NameH, NameA, NameL>>
PathAt == <<NameH, NameAt>>

Paths == {Root, PathD, PathH, PathA, PathBt, PathL, PathAt}
Directories == {Root, PathD, PathH, PathA}
Cwd == PathH

\* What happens to the filesystem while the program runs: the working
\* directory is removed, the file a.t loses its permissions, or either is
\* restored.
FsEvents == {<<PathH, "gone">>, <<PathAt, "denied">>, <<PathH, "ok">>, <<PathAt, "ok">>}

\* The last component of a path and the path without it (Path::parent).
Front(p) == SubSeq(p, 1, Len(p) - 1)

\* std::fs::canonicalize on a path that resolves: the symbolic link is replaced
\* by its target.
Resolve(p) == IF p = PathL THEN PathD ELSE p

\* The io::ErrorKind of the first inaccessible component met when the OS walks
\* to `p` and, through a link, on to its target; "ok" when there is none.
Walk(f, p) ==
    LET bad == {k \in 0..Len(p) : f[SubSeq(p, 1, k)] # "ok"}
    IN  IF bad = {} THEN "ok"
        ELSE f[SubSeq(p, 1, CHOOSE k \in bad : \A j \in bad : k <= j)]

Access(f, p) ==
    IF Walk(f, p) # "ok" THEN Walk(f, p) ELSE Walk(f, Resolve(p))

\* fs::read_to_string: the text of each file.
Content(p) ==
    CASE p = PathAt -> "alpha"
      [] p = PathBt -> "beta"
      [] OTHER -> ""

read_to_string(f, p) ==
    IF Access(f, p) = "ok" /\ Resolve(p) \notin Directories
    THEN Ok(Content(Resolve(p)))
    ELSE Err(IF Access(f, p) = "ok" THEN "is_a_directory" ELSE Access(f, p))

(***************************************************************************)
(* fs_utils.rs                                                             *)
(***************************************************************************)
\* Path::file_name as from_relative_path uses it: the last component, and the
\* path string itself ("/") when there is none.
file_name_of(p) == IF p = Root THEN <<47>> ELSE p[Len(p)]

\* Path::parent of the canonical path.
parent_of(p) == IF p = Root THEN None ELSE Some(Front(p))

\* FileNode::from_relative_path.  The size and the three timestamps of a node
\* are display strings no operation reads; they are left out of the record.
from_relative_path(f, p) ==
    IF Access(f, p) # "ok" THEN Err(Access(f, p))
    ELSE Ok([file_name |-> file_name_of(p),
             absolute_path |-> Resolve(p),
             parent_folder |-> parent_of(Resolve(p)),
             is_dir |-> Resolve(p) \in Directories,
             matches_filters |-> TRUE])

\* The comparator of nodes.sort_by: TRUE when it returns Ordering::Less.
node_less(a, b) ==
    IF a.is_dir /\ ~b.is_dir THEN TRUE
    ELSE IF ~a.is_dir /\ b.is_dir THEN FALSE
    ELSE str_less(to_lowercase(a.file_name), to_lowercase(b.file_name))

\* slice::sort_by is a stable sort: an element is placed before the first
\* element it is Less than, and after every element it is not.
insert_sorted(s, x) ==
    LET after == {i \in 1..Len(s) : node_less(x, s[i])}
        pos == IF after = {} THEN Len(s) + 1
               ELSE CHOOSE i \in after : \A j \in after : i <= j
    IN  SubSeq(s, 1, pos - 1) \o <<x>> \o SubSeq(s, pos, Len(s))

RECURSIVE sort_by(_)
sort_by(s) ==
    IF s = <<>> THEN <<>>
    ELSE insert_sorted(sort_by(SubSeq(s, 1, Len(s) - 1)), s[Len(s)])

\* The loop of read_dir over the first `n` entries of the enumeration `order`
\* (a sequence of paths): nodes that can be built are pushed, the others skipped.
RECURSIVE collect(_, _, _)
collect(f, order, n) ==
    IF n = 0 THEN <<>>
    ELSE LET r == from_relative_path(f, order[n])
         IN  IF r.ok THEN Append(collect(f, order, n - 1), r.v)
             ELSE collect(f, order, n - 1)

\* read_dir that hands the error of fs::read_dir to its caller.
read_dir_propagates(f, p, order, err_at) ==
    IF Access(f, p) # "ok" \/ Resolve(p) \notin Directories
    THEN Err(IF Access(f, p) # "ok" THEN Access(f, p) ELSE "not_a_directory")
    ELSE IF err_at # 0 THEN Ok(collect(f, order, err_at - 1))
    ELSE Ok(sort_by(collect(f, order, Len(order))))

\* read_dir.  `order` is the order in which the OS yields the entries and
\* `err_at` the position at which the iterator yields Err (0: it never does).
read_dir(f, p, order, err_at) ==
    IF Access(f, p) # "ok" \/ Resolve(p) \notin Directories THEN Ok(<<>>)
    ELSE IF err_at # 0 THEN Ok(collect(f, order, err_at - 1))
    ELSE Ok(sort_by(collect(f, order, Len(order))))

\* determine_file_type: Path::extension of the file name, the text after the
\* last '.', None when there is no '.' or only a leading one.
determine_file_type(p) ==
    IF p = Root THEN None
    ELSE LET name == p[Len(p)]
             dots == {i \in 1..Len(name) : name[i] = 46}
         IN  IF dots = {} \/ name = <<46, 46>> THEN None
             ELSE LET d == CHOOSE i \in dots : \A j \in dots : i >= j
                  IN  IF d = 1 THEN None
                      ELSE Some(SubSeq(name, d + 1, Len(name)))

\* The order in which the OS keeps the entries of each directory (the order
\* fs::read_dir yields them in is the filesystem's, not the alphabet's).
DiskOrder(dir) ==
    CASE dir = Root -> <<PathH, PathD>>
      [] dir = PathH -> <<PathBt, PathAt, PathA>>
      [] dir = PathA -> <<PathL>>
      [] OTHER -> <<>>

RECURSIVE Existing(_, _)
Existing(f, order) ==
    IF order = <<>> THEN <<>>
    ELSE IF f[order[1]] # "gone" THEN <<order[1]>> \o Existing(f, Tail(order))
    ELSE Existing(f, Tail(order))

\* The entries fs::read_dir yields for the directory `p`, in order.
Enumeration(f, p) == Existing(f, DiskOrder(Resolve(p)))

(***************************************************************************)
(* app.rs: the application state and post_update.                          *)
(***************************************************************************)
\* The texts of the SearchByFilename actions sent from the search box: "",
\* " " and " A".
SearchTexts == {<<>>, <<32>>, <<32, 65>>}

\* The user types " A b.": the k-th DebouncedSearch carries the first k
\* characters.
Typed == <<32, 65, 32, 98, 46>>
DebounceTexts(ts) == {SubSeq(Typed, 1, Len(ts) + 1)}

\* What the OS does during one read_dir of the directory `p`: the entries it
\* yields and where (if anywhere) the iteration fails.
EnumChoices(f, p, errs) ==
    IF Access(f, p) # "ok" \/ Resolve(p) \notin Directories
    THEN {[order |-> <<>>, err_at |-> 0]}
    ELSE {[order |-> Enumeration(f, p), err_at |-> k] :
            k \in IF errs < MaxIoErrors THEN 0..(Len(Enumeration(f, p)) + 1) ELSE {0}}

NoEnum == [order |-> <<>>, err_at |-> 0]

\* FileExplorerApp::default, after the working directory resolved.
default(f, e) ==
    [files |-> read_dir(f, Cwd, e.order, e.err_at).v,
     opened_dir |-> from_relative_path(f, Cwd).v,
     opened_file |-> None,
     opened_file_contents |-> Ok(""),
     opened_file_type |-> None,
     file_name_search |-> <<>>,
     file_filter_handle |-> None,
     file_info_modal_node |-> None,
     file_info_modal_open |-> FALSE]

\* The early return of open_file: the node's path is the opened file's.
already_opened(a, file) ==
    IsSome(a.opened_file) /\ Unwrap(a.opened_file).absolute_path = file.absolute_path

\* open_file without the early return for the file that is already opened.
open_file_rereads(a, f, file, e) ==
    IF file.is_dir
    THEN LET cleared == [a EXCEPT !.file_name_search = <<>>]
             r == read_dir(f, file.absolute_path, e.order, e.err_at)
         IN  IF r.ok THEN [cleared EXCEPT !.opened_dir = file, !.files = r.v]
             ELSE cleared
    ELSE LET c == read_to_string(f, file.absolute_path)
             set == [a EXCEPT !.opened_file = Some(file), !.opened_file_contents = c]
         IN  IF c.ok
             THEN [set EXCEPT !.opened_file_type = determine_file_type(file.absolute_path)]
             ELSE set

\* open_file that makes the node it opens the opened directory, file or not.
open_file_sets_dir(a, f, file, e) ==
    IF already_opened(a, file) THEN a
    ELSE IF file.is_dir
    THEN LET cleared == [a EXCEPT !.file_name_search = <<>>]
             r == read_dir(f, file.absolute_path, e.order, e.err_at)
         IN  IF r.ok THEN [cleared EXCEPT !.opened_dir = file, !.files = r.v]
             ELSE cleared
    ELSE LET c == read_to_string(f, file.absolute_path)
             set == [a EXCEPT !.opened_dir = file, !.opened_file = Some(file),
                              !.opened_file_contents = c]
         IN  IF c.ok
             THEN [set EXCEPT !.opened_file_type = determine_file_type(file.absolute_path)]
             ELSE set

\* open_file whose directory branch keeps the search text.
open_file_keeps_search(a, f, file, e) ==
    IF already_opened(a, file) THEN a
    ELSE IF file.is_dir
    THEN LET r == read_dir(f, file.absolute_path, e.order, e.err_at)
         IN  IF r.ok THEN [a EXCEPT !.opened_dir = file, !.files = r.v]
             ELSE a
    ELSE LET c == read_to_string(f, file.absolute_path)
             set == [a EXCEPT !.opened_file = Some(file), !.opened_file_contents = c]
         IN  IF c.ok
             THEN [set EXCEPT !.opened_file_type = determine_file_type(file.absolute_path)]
             ELSE set

\* open_file that returns on a failed read without storing anything.
open_file_drops_error(a, f, file, e) ==
    IF already_opened(a, file) THEN a
    ELSE IF file.is_dir
    THEN LET cleared == [a EXCEPT !.file_name_search = <<>>]
             r == read_dir(f, file.absolute_path, e.order, e.err_at)
         IN  IF r.ok THEN [cleared EXCEPT !.opened_dir = file, !.files = r.v]
             ELSE cleared
    ELSE LET c == read_to_string(f, file.absolute_path)
         IN  IF c.ok
             THEN [a EXCEPT !.opened_file = Some(file), !.opened_file_contents = c,
                            !.opened_file_type = determine_file_type(file.absolute_path)]
             ELSE a

\* open_file that clears the search text for a file as it does for a directory.
open_file_clears_search(a, f, file, e) ==
    IF already_opened(a, file) THEN a
    ELSE LET cleared == [a EXCEPT !.file_name_search = <<>>] IN
         IF file.is_dir
         THEN LET r == read_dir(f, file.absolute_path, e.order, e.err_at)
              IN  IF r.ok THEN [cleared EXCEPT !.opened_dir = file, !.files = r.v]
                  ELSE cleared
         ELSE LET c == read_to_string(f, file.absolute_path)
                  set == [cleared EXCEPT !.opened_file = Some(file),
                                         !.opened_file_contents = c]
              IN  IF c.ok
                  THEN [set EXCEPT !.opened_file_type = determine_file_type(file.absolute_path)]
                  ELSE set

\* FileExplorerApp::open_file.
open_file(a, f, file, e) ==
    IF already_opened(a, file) THEN a
    ELSE IF file.is_dir
    THEN LET cleared == [a EXCEPT !.file_name_search = <<>>]
             r == read_dir(f, file.absolute_path, e.order, e.err_at)
         IN  IF r.ok THEN [cleared EXCEPT !.opened_dir = file, !.files = r.v]
             ELSE cleared
    ELSE LET c == read_to_string(f, file.absolute_path)
             set == [a EXCEPT !.opened_file = Some(file), !.opened_file_contents = c]
         IN  IF c.ok
             THEN [set EXCEPT !.opened_file_type = determine_file_type(file.absolute_path)]
             ELSE set

\* Whether open_file(a, file) reads a directory.
reads_dir(a, file) == ~already_opened(a, file) /\ file.is_dir

\* SearchByFilename matching the text as typed, without trim().
search_by_filename_untrimmed(a, text) ==
    [a EXCEPT !.files =
        [i \in 1..Len(a.files) |->
            [a.files[i] EXCEPT !.matches_filters =
                contains(to_lowercase(a.files[i].file_name), to_lowercase(text))]]]

\* The arm Action::SearchByFilename of post_update.
search_by_filename(a, text) ==
    [a EXCEPT !.files =
        [i \in 1..Len(a.files) |->
            [a.files[i] EXCEPT !.matches_filters =
                contains(to_lowercase(a.files[i].file_name), to_lowercase(trim(text)))]]]

\* CloseFile that keeps the type inferred for the file it closes.
close_file_keeps_type(a) ==
    [a EXCEPT !.opened_file = None,
              !.opened_file_contents = Ok("")]

\* CloseFile that closes the file info modal together with the file.
close_file_closes_modal(a) ==
    [a EXCEPT !.opened_file = None,
              !.opened_file_contents = Ok(""),
              !.opened_file_type = None,
              !.file_info_modal_open = FALSE,
              !.file_info_modal_node = None]

\* The arm Action::CloseFile of post_update.
close_file(a) ==
    [a EXCEPT !.opened_file = None,
              !.opened_file_contents = Ok(""),
              !.opened_file_type = None]

\* GoBack that falls back to the opened directory itself when it has no parent.
go_back_node_reopens(a, f) ==
    IF IsSome(a.opened_dir.parent_folder)
    THEN Some(from_relative_path(f, Unwrap(a.opened_dir.parent_folder)))
    ELSE Some(from_relative_path(f, a.opened_dir.absolute_path))

\* GoBack that opens the opened directory itself instead of its parent.
go_back_node_stays(a, f) ==
    IF IsSome(a.opened_dir.parent_folder)
    THEN Some(from_relative_path(f, a.opened_dir.absolute_path))
    ELSE None

\* The arm Action::GoBack of post_update: the node it hands to open_file
\* (None at the root), as a Result: expect() panics on Err.
go_back_node(a, f) ==
    IF IsSome(a.opened_dir.parent_folder)
    THEN Some(from_relative_path(f, Unwrap(a.opened_dir.parent_folder)))
    ELSE None

go_back_panics(a, f) == IsSome(go_back_node(a, f)) /\ ~Unwrap(go_back_node(a, f)).ok

go_back(a, f, e) ==
    IF IsSome(go_back_node(a, f)) /\ Unwrap(go_back_node(a, f)).ok
    THEN open_file(a, f, Unwrap(go_back_node(a, f)).v, e)
    ELSE a

\* The arm Action::OpenContextMenu(OpenFileInfoModal(index)); `i` is index + 1.
open_file_info_modal(a, i) ==
    [a EXCEPT !.file_info_modal_node =
                 IF i \in 1..Len(a.files) THEN Some(a.files[i]) ELSE None,
              !.file_info_modal_open = TRUE]

\* The arm Action::CloseFileInfoModal.
close_file_info_modal(a) ==
    [a EXCEPT !.file_info_modal_open = FALSE, !.file_info_modal_node = None]

(***************************************************************************)
(* The debounce task of Action::DebouncedSearch.  A task is                *)
(*   text     the text its SearchByFilename carries                        *)
(*   elapsed  500 ms have passed since it was created                      *)
(*   aborted  abort() was called on its handle                             *)
(*   spawned  the runtime was given the task and runs it                   *)
(*   fired    its sleep completed and it produced SearchByFilename(text)   *)
(*   applied  post_update has applied that SearchByFilename                *)
(*   in_window  it was created while the task before it had not elapsed    *)
(***************************************************************************)
\* filters.file_filter_handle.as_ref().map(|h| h.abort())
abort(ts, handle) ==
    IF IsSome(handle) THEN [ts EXCEPT ![Unwrap(handle)].aborted = TRUE] ELSE ts

\* Task::perform(sleep(500 ms), ..).abortable(): the task post_update returns.
new_task(ts, text) ==
    [text |-> text, elapsed |-> FALSE, aborted |-> FALSE, spawned |-> FALSE,
     fired |-> FALSE, applied |-> FALSE,
     in_window |-> ts # <<>> /\ ~ts[Len(ts)].elapsed]

\* DebouncedSearch that applies the filter at once instead of leaving it to
\* SearchByFilename.
debounced_search_filters(a, ts, text) ==
    [a EXCEPT !.file_name_search = text,
              !.file_filter_handle = Some(Len(ts) + 1),
              !.files = [i \in 1..Len(a.files) |->
                           [a.files[i] EXCEPT !.matches_filters =
                               contains(to_lowercase(a.files[i].file_name),
                                        to_lowercase(trim(text)))]]]

\* The arm Action::DebouncedSearch of post_update: the new application state.
debounced_search(a, ts, text) ==
    [a EXCEPT !.file_name_search = text,
              !.file_filter_handle = Some(Len(ts) + 1)]

\* update handing the Task post_update returns to the runtime.
update_returns_task == TRUE

\* FileExplorerApp::update, the function the iced application is built with:
\* whether the Task post_update returns reaches the runtime.  It does not:
\* `let _ = self.post_update(action);` drops it and update returns ().
update_runs_task == FALSE

\* update on the task post_update returned.
update_task(t) == [t EXCEPT !.spawned = update_runs_task]

(***************************************************************************)
(* The actions: update(action) for each Action, and the environment.       *)
(***************************************************************************)
\* The last action applied: its kind, the text of a search, the task a
\* SearchByFilename came from (0: the search box) and the case of the arm taken.
Last(kind, text, from, case) ==
    [kind |-> kind, text |-> text, from |-> from, case |-> case]

\* The case of open_file on a node.
open_case(a, file) ==
    IF already_opened(a, file) THEN "same" ELSE IF file.is_dir THEN "dir" ELSE "file"

Init ==
    /\ fs = [p \in Paths |-> "ok"]
    /\ app = default(fs, [order |-> Enumeration(fs, Cwd), err_at |-> 0])
    /\ io_errs = 0
    /\ tasks = <<>>
    /\ queue = <<>>
    /\ fs_changes = 0
    /\ crashed = FALSE
    /\ frame = None
    /\ last = Last("Init", <<>>, 0, "")

\* update(Action::OpenFile(index)) for an index the view offers; `i` is index + 1.
UpdateOpenFileAt(i) ==
    /\ ~crashed
    /\ i \in 1..Len(app.files)
    /\ LET file == app.files[i] IN
       \E e \in IF reads_dir(app, file)
                THEN EnumChoices(fs, file.absolute_path, io_errs) ELSE {NoEnum} :
          /\ app' = open_file(app, fs, file, e)
          /\ io_errs' = IF e.err_at # 0 THEN io_errs + 1 ELSE io_errs
          /\ last' = Last("OpenFile", <<>>, 0, open_case(app, file))
    /\ UNCHANGED <<frame, fs, tasks, queue, fs_changes, crashed>>

UpdateOpenFile == \E i \in 1..Len(app.files) : UpdateOpenFileAt(i)

\* update(Action::CloseFile)
UpdateCloseFile ==
    /\ ~crashed
    /\ app' = close_file(app)
    /\ last' = Last("CloseFile", <<>>, 0, IF IsSome(app.opened_file) THEN "open" ELSE "none")
    /\ UNCHANGED <<frame, fs, tasks, queue, io_errs, fs_changes, crashed>>

\* update(Action::GoBack())
UpdateGoBack ==
    /\ ~crashed
    /\ IF go_back_panics(app, fs)
       THEN /\ crashed' = TRUE
            /\ last' = Last("GoBack", <<>>, 0, "panic")
            /\ UNCHANGED <<app, io_errs>>
       ELSE LET n == go_back_node(app, fs) IN
            \E e \in IF IsSome(n) /\ reads_dir(app, Unwrap(n).v)
                     THEN EnumChoices(fs, Unwrap(n).v.absolute_path, io_errs)
                     ELSE {NoEnum} :
               /\ app' = go_back(app, fs, e)
               /\ io_errs' = IF e.err_at # 0 THEN io_errs + 1 ELSE io_errs
               /\ last' = Last("GoBack", <<>>, 0,
                               IF IsSome(n) THEN open_case(app, Unwrap(n).v) ELSE "root")
               /\ UNCHANGED crashed
    /\ UNCHANGED <<frame, fs, tasks, queue, fs_changes>>

\* update(Action::DebouncedSearch(text))
UpdateDebouncedSearch ==
    /\ ~crashed
    /\ Len(tasks) < MaxSearches
    /\ \E text \in DebounceTexts(tasks) :
          /\ app' = debounced_search(app, tasks, text)
          /\ tasks' = Append(abort(tasks, app.file_filter_handle),
                             update_task(new_task(tasks, text)))
          /\ last' = Last("DebouncedSearch", text, 0, "")
    /\ UNCHANGED <<frame, fs, queue, io_errs, fs_changes, crashed>>

\* update(Action::SearchByFilename(text)): the message comes from the search
\* box, or it is the oldest message a debounce task produced.
UpdateSearchByFilename ==
    /\ ~crashed
    /\ \E m \in {[text |-> t, from |-> 0] : t \in SearchTexts}
                \cup (IF queue # <<>> THEN {Head(queue)} ELSE {}) :
          /\ app' = search_by_filename(app, m.text)
          /\ queue' = IF m.from # 0 THEN Tail(queue) ELSE queue
          /\ tasks' = IF m.from # 0 THEN [tasks EXCEPT ![m.from].applied = TRUE] ELSE tasks
          /\ last' = Last("SearchByFilename", m.text, m.from, "")
    /\ UNCHANGED <<frame, fs, io_errs, fs_changes, crashed>>

\* update(Action::OpenContextMenu(OpenFileInfoModal(index))); `i` is index + 1.
UpdateOpenContextMenu ==
    /\ ~crashed
    /\ \E i \in 1..MaxInfoIndex :
          /\ app' = open_file_info_modal(app, i)
          /\ last' = Last("OpenFileInfoModal", <<>>, 0,
                          IF i <= Len(app.files) THEN "valid" ELSE "invalid")
    /\ UNCHANGED <<frame, fs, tasks, queue, io_errs, fs_changes, crashed>>

\* update(Action::CloseFileInfoModal)
UpdateCloseFileInfoModal ==
    /\ ~crashed
    /\ app' = close_file_info_modal(app)
    /\ last' = Last("CloseFileInfoModal", <<>>, 0, "")
    /\ UNCHANGED <<frame, fs, tasks, queue, io_errs, fs_changes, crashed>>

\* 500 ms have passed since the oldest task whose sleep had not elapsed was
\* created.  A task the runtime runs and nobody aborted completes and sends
\* its SearchByFilename to the application.
Elapse ==
    /\ ~crashed
    /\ \E i \in 1..Len(tasks) :
          /\ ~tasks[i].elapsed
          /\ \A j \in 1..(i - 1) : tasks[j].elapsed
          /\ LET fires == tasks[i].spawned /\ ~tasks[i].aborted IN
             /\ tasks' = [tasks EXCEPT ![i].elapsed = TRUE, ![i].fired = fires]
             /\ queue' = IF fires
                         THEN Append(queue, [text |-> tasks[i].text, from |-> i])
                         ELSE queue
    /\ UNCHANGED <<frame, app, fs, io_errs, fs_changes, crashed, last>>

\* The filesystem changes under the program: a path is removed, loses its
\* permissions, or comes back.
FsChange ==
    /\ ~crashed
    /\ fs_changes < MaxFsChanges
    /\ \E ev \in FsEvents :
          /\ fs[ev[1]] # ev[2]
          /\ fs' = [fs EXCEPT ![ev[1]] = ev[2]]
    /\ fs_changes' = fs_changes + 1
    /\ UNCHANGED <<frame, app, tasks, queue, io_errs, crashed, last>>

(***************************************************************************)
(* ui.rs, impl eframe::App: one call of update is a frame, a rendering pass *)
(* that collects the action of the frame followed by post_update(action).  *)
(***************************************************************************)
\* An Action that the rendering pass assigns to `action`.
EguiAction(kind, text, index) == [kind |-> kind, text |-> text, index |-> index]

\* What the user does during one frame, given the widgets the state `a` shows:
\* nothing, type in the search box (it then holds `text`), press Enter in the
\* search box, click "../", click the child at `index`, or click "Close".
EguiInputs(a) ==
    {EguiAction("idle", <<>>, 0), EguiAction("enter", <<>>, 0)}
    \cup {EguiAction("type", t, 0) : t \in SearchTexts \ {a.file_name_search}}
    \cup (IF a.opened_dir.absolute_path # Root THEN {EguiAction("back", <<>>, 0)} ELSE {})
    \cup {EguiAction("click", <<>>, i) : i \in {i \in 1..Len(a.files) : a.files[i].matches_filters}}
    \cup (IF IsSome(a.opened_file) THEN {EguiAction("close", <<>>, 0)} ELSE {})

\* The search box: egui::TextEdit::singleline(&mut self.filters.file_name_search)
\* writes what the user types into the String it borrows.
egui_text_edit(a, inp) ==
    IF inp.kind = "type" THEN [a EXCEPT !.file_name_search = inp.text] ELSE a

\* The action the rendering pass leaves in `action`.
egui_action(a, inp) ==
    CASE inp.kind = "enter" -> EguiAction("SearchByFilename", a.file_name_search, 0)
      [] inp.kind = "back" -> EguiAction("GoBack", <<>>, 0)
      [] inp.kind = "click" -> EguiAction("OpenFile", <<>>, inp.index)
      [] inp.kind = "close" -> EguiAction("CloseFile", <<>>, 0)
      [] OTHER -> EguiAction("None", <<>>, 0)

\* The rendering pass of eframe::App::update, up to the call of post_update.
EguiRender ==
    /\ ~crashed
    /\ frame = None
    /\ \E inp \in EguiInputs(app) :
          /\ app' = egui_text_edit(app, inp)
          /\ frame' = Some(egui_action(egui_text_edit(app, inp), inp))
    /\ UNCHANGED <<fs, tasks, queue, io_errs, fs_changes, crashed, last>>

\* The last statement of eframe::App::update: self.post_update(action).
EguiPostUpdate ==
    /\ ~crashed
    /\ IsSome(frame)
    /\ frame' = None
    /\ LET action == Unwrap(frame) IN
       \/ /\ action.kind = "None"
          /\ UNCHANGED <<app, io_errs, crashed, last>>
       \/ /\ action.kind = "SearchByFilename"
          /\ app' = search_by_filename(app, action.text)
          /\ last' = Last("SearchByFilename", action.text, 0, "")
          /\ UNCHANGED <<io_errs, crashed>>
       \/ /\ action.kind = "CloseFile"
          /\ app' = close_file(app)
          /\ last' = Last("CloseFile", <<>>, 0,
                          IF IsSome(app.opened_file) THEN "open" ELSE "none")
          /\ UNCHANGED <<io_errs, crashed>>
       \/ /\ action.kind = "OpenFile"
          /\ LET file == app.files[action.index] IN
             \E e \in IF reads_dir(app, file)
                      THEN EnumChoices(fs, file.absolute_path, io_errs) ELSE {NoEnum} :
                /\ app' = open_file(app, fs, file, e)
                /\ io_errs' = IF e.err_at # 0 THEN io_errs + 1 ELSE io_errs
                /\ last' = Last("OpenFile", <<>>, 0, open_case(app, file))
          /\ UNCHANGED crashed
       \/ /\ action.kind = "GoBack"
          /\ IF go_back_panics(app, fs)
             THEN /\ crashed' = TRUE
                  /\ last' = Last("GoBack", <<>>, 0, "panic")
                  /\ UNCHANGED <<app, io_errs>>
             ELSE LET n == go_back_node(app, fs) IN
                  \E e \in IF IsSome(n) /\ reads_dir(app, Unwrap(n).v)
                           THEN EnumChoices(fs, Unwrap(n).v.absolute_path, io_errs)
                           ELSE {NoEnum} :
                     /\ app' = go_back(app, fs, e)
                     /\ io_errs' = IF e.err_at # 0 THEN io_errs + 1 ELSE io_errs
                     /\ last' = Last("GoBack", <<>>, 0,
                                     IF IsSome(n) THEN open_case(app, Unwrap(n).v)
                                     ELSE "root")
                     /\ UNCHANGED crashed
    /\ UNCHANGED <<fs, tasks, queue, fs_changes>>

\* Navigation, search and the debounce timer.
Next ==
    \/ UpdateOpenFile
    \/ UpdateCloseFile
    \/ UpdateGoBack
    \/ UpdateDebouncedSearch
    \/ UpdateSearchByFilename
    \/ Elapse
    \/ FsChange

Spec == Init /\ [][Next]_vars

\* Navigation, search and the file info modal.
NextModal ==
    \/ UpdateOpenFile
    \/ UpdateCloseFile
    \/ UpdateGoBack
    \/ UpdateSearchByFilename
    \/ UpdateOpenContextMenu
    \/ UpdateCloseFileInfoModal
    \/ FsChange

SpecModal == Init /\ [][NextModal]_vars

\* Navigation, the stored search text with its handle, and the file info modal.
NextClose ==
    \/ UpdateOpenFile
    \/ UpdateCloseFile
    \/ UpdateGoBack
    \/ UpdateDebouncedSearch
    \/ UpdateOpenContextMenu
    \/ UpdateCloseFileInfoModal
    \/ FsChange

SpecClose == Init /\ [][NextClose]_vars

\* Navigation, search and the debounce timer on a filesystem that stays as it is.
NextTimer ==
    \/ UpdateOpenFile
    \/ UpdateCloseFile
    \/ UpdateGoBack
    \/ UpdateDebouncedSearch
    \/ UpdateSearchByFilename
    \/ Elapse

SpecTimer == Init /\ [][NextTimer]_vars

\* Navigation and search on a filesystem that changes, within the 500 ms of
\* each DebouncedSearch.
NextFilter ==
    \/ UpdateOpenFile
    \/ UpdateCloseFile
    \/ UpdateGoBack
    \/ UpdateDebouncedSearch
    \/ UpdateSearchByFilename
    \/ FsChange

SpecFilter == Init /\ [][NextFilter]_vars

\* Navigation and the debounced search box: every search is a DebouncedSearch.
NextDebounce ==
    \/ UpdateOpenFile
    \/ UpdateCloseFile
    \/ UpdateGoBack
    \/ UpdateDebouncedSearch
    \/ Elapse
    \/ FsChange

SpecDebounce == Init /\ [][NextDebounce]_vars

\* The frames of the eframe application.
NextEgui ==
    \/ EguiRender
    \/ EguiPostUpdate
    \/ FsChange

SpecEgui == Init /\ [][NextEgui]_vars

(***************************************************************************)
(* The claims.                                                             *)
(***************************************************************************)
\* The node of the directory at the canonical path `p`.
dir_node(p) ==
    [file_name |-> file_name_of(p), absolute_path |-> p, parent_folder |-> parent_of(p),
     is_dir |-> TRUE, matches_filters |-> TRUE]

\* C1: after OpenFile on a directory node, or GoBack to a parent directory,
\* opened_file is None.
C1_OpenDirClearsOpenedFile ==
    (last.kind \in {"OpenFile", "GoBack"} /\ last.case = "dir") => app.opened_file = None

\* A task the runtime holds whose timer is live: scheduled, not fired, not aborted.
Live(i) == tasks[i].spawned /\ ~tasks[i].fired /\ ~tasks[i].aborted

\* Task i has produced its SearchByFilename for post_update: the message
\* waits in the runtime's queue or was applied.
Delivers(i) ==
    /\ tasks[i].fired
    /\ \/ tasks[i].applied
       \/ \E k \in 1..Len(queue) : queue[k] = [text |-> tasks[i].text, from |-> i]

\* C2: when a second DebouncedSearch was applied within 500 ms of the first and
\* no third followed, then once the second timer has elapsed exactly one
\* SearchByFilename has been produced for post_update, with the second text.
C2_OneSearchWithSecondText ==
    \A i \in 2..Len(tasks) :
        (i = Len(tasks) /\ tasks[i].in_window /\ tasks[i].elapsed)
            => /\ Delivers(i)
               /\ ~tasks[i - 1].fired

C4_ElapsedTimerDelivers ==
    \A i \in 1..Len(tasks) : (tasks[i].elapsed /\ ~tasks[i].aborted) => Delivers(i)

\* C5: no action makes the process panic.
C5_NoPanic == ~crashed

\* C6: OpenFile(index) on the node whose absolute_path is the opened file's
\* leaves the application state unchanged.
C6_ReopenLeavesStateUnchanged ==
    [][\A i \in 1..Len(app.files) :
          (/\ IsSome(app.opened_file)
           /\ app.files[i].absolute_path = Unwrap(app.opened_file).absolute_path
           /\ UpdateOpenFileAt(i))
              => app' = app]_vars

\* OpenFile was applied to the node of the opened file.
C6_Witness ==
    /\ last.kind = "OpenFile"
    /\ last.case = "same"
    /\ IsSome(app.opened_file)
    /\ \E i \in 1..Len(app.files) :
          app.files[i].absolute_path = Unwrap(app.opened_file).absolute_path

\* C7: GoBack when opened_dir has no parent leaves the application state
\* unchanged.
C7_GoBackAtRootIsNoOp ==
    [][(app.opened_dir.parent_folder = None /\ UpdateGoBack)
          => (app' = app /\ crashed' = crashed)]_vars

\* GoBack was applied while the root was the opened directory.
C7_Witness ==
    /\ last.kind = "GoBack"
    /\ last.case = "root"
    /\ app.opened_dir.absolute_path = Root
    /\ app.opened_dir.parent_folder = None

\* C8: GoBack when opened_dir has the parent p produces the state that
\* open_file on the directory node of p produces: opened_dir is the node of p,
\* files the listing of p, the search text empty.
C8_GoBackIsOpenParent ==
    [][(IsSome(app.opened_dir.parent_folder) /\ UpdateGoBack)
          => LET p == Unwrap(app.opened_dir.parent_folder) IN
             /\ ~crashed'
             /\ \E e \in EnumChoices(fs, p, io_errs) :
                   app' = open_file(app, fs, dir_node(p), e)
             /\ app'.opened_dir.absolute_path = p
             /\ app'.file_name_search = <<>>]_vars

\* C9: after SearchByFilename(text) a child matches exactly when its
\* lower-cased name contains the trimmed lower-cased text, and every child
\* matches when the text is empty or only spaces.
C9_FilterMatchesText ==
    last.kind = "SearchByFilename" =>
        /\ \A i \in 1..Len(app.files) :
              app.files[i].matches_filters =
                  contains(to_lowercase(app.files[i].file_name), to_lowercase(trim(last.text)))
        /\ (\A k \in 1..Len(last.text) : last.text[k] = 32)
              => \A i \in 1..Len(app.files) : app.files[i].matches_filters

\* SearchByFilename(" A") was applied to a listing with a child it matches and
\* a child it does not.
C9_Witness ==
    /\ last.kind = "SearchByFilename"
    /\ last.text = <<32, 65>>
    /\ \E i, j \in 1..Len(app.files) :
          /\ app.files[i].matches_filters /\ app.files[i].file_name = NameA
          /\ ~app.files[j].matches_filters /\ app.files[j].file_name = NameBt

\* The listing `s` has its directories before its files and each group in
\* non-decreasing order of the lower-cased name.
Sorted(s) ==
    \A i, j \in 1..Len(s) :
        i < j => /\ s[j].is_dir => s[i].is_dir
                 /\ (s[i].is_dir = s[j].is_dir)
                       => ~str_less(to_lowercase(s[j].file_name), to_lowercase(s[i].file_name))

\* C10: the listing read_dir returned is sorted, directories first.
C10_ListingSorted == Sorted(app.files)

\* The nodes of the entries of the directory `p` whose node construction
\* succeeds.
Constructible(f, p) ==
    {from_relative_path(f, Enumeration(f, p)[k]).v :
        k \in {k \in 1..Len(Enumeration(f, p)) :
                  from_relative_path(f, Enumeration(f, p)[k]).ok}}

\* The nodes of the listing `s`.
Nodes(s) == {s[k] : k \in 1..Len(s)}

\* C11: when OpenFile or GoBack lists a directory that can be opened, the
\* listing holds exactly the entries whose node construction succeeds, each
\* once: when the iterator yielded an error at most the one entry it failed
\* on is missing, and no other failure removes a readable entry.
C11_ListingHasEveryReadableEntry ==
    [][((UpdateOpenFile \/ UpdateGoBack)
          /\ last'.case = "dir"
          /\ Access(fs, app'.opened_dir.absolute_path) = "ok")
          => LET readable == Constructible(fs, app'.opened_dir.absolute_path) IN
             /\ Nodes(app'.files) \subseteq readable
             /\ Len(app'.files) = Cardinality(Nodes(app'.files))
             /\ Cardinality(readable \ Nodes(app'.files))
                   <= (IF io_errs' # io_errs THEN 1 ELSE 0)]_vars

\* C12: when the directory cannot be opened for enumeration read_dir returns
\* Ok of the empty listing, and OpenFile on that directory completes: opened_dir
\* is that directory and files is empty.
C12_UnopenableDirGivesEmptyListing ==
    [][\A i \in 1..Len(app.files) :
          (/\ reads_dir(app, app.files[i])
           /\ Access(fs, app.files[i].absolute_path) # "ok"
           /\ UpdateOpenFileAt(i))
              => /\ \A e \in EnumChoices(fs, app.files[i].absolute_path, io_errs) :
                       read_dir(fs, app.files[i].absolute_path, e.order, e.err_at) = Ok(<<>>)
                 /\ ~crashed'
                 /\ app'.opened_dir = app.files[i]
                 /\ app'.files = <<>>]_vars

\* OpenFile was applied to a directory of the listing that had been removed:
\* it is the opened directory and the listing is empty.
C12_Witness ==
    /\ last.kind = "OpenFile"
    /\ last.case = "dir"
    /\ io_errs = 0
    /\ Access(fs, app.opened_dir.absolute_path) # "ok"
    /\ app.files = <<>>

\* C13: when OpenFile reads a file node whose content cannot be read, nothing
\* is raised: opened_file is Some of that node and opened_file_contents is the
\* error of the read.
C13_ReadFailureIsStored ==
    [][\A i \in 1..Len(app.files) :
          (/\ ~app.files[i].is_dir
           /\ ~already_opened(app, app.files[i])
           /\ ~read_to_string(fs, app.files[i].absolute_path).ok
           /\ UpdateOpenFileAt(i))
              => /\ ~crashed'
                 /\ app'.opened_file = Some(app.files[i])
                 /\ ~app'.opened_file_contents.ok
                 /\ app'.opened_file_contents
                       = read_to_string(fs, app.files[i].absolute_path)]_vars

\* OpenFile was applied to a file that could not be read.
C13_Witness ==
    /\ last.kind = "OpenFile"
    /\ last.case = "file"
    /\ ~crashed
    /\ IsSome(app.opened_file)
    /\ ~read_to_string(fs, Unwrap(app.opened_file).absolute_path).ok
    /\ ~app.opened_file_contents.ok

\* C14: after OpenFile on a file node whose read failed, opened_file_contents
\* is the error and opened_file_type is None.
C14_FailedReadClearsFileType ==
    (last.kind = "OpenFile" /\ last.case = "file" /\ ~app.opened_file_contents.ok)
        => app.opened_file_type = None

\* C16: OpenFile on a file node leaves opened_dir, files with every
\* matches_filters flag, the search text and the filter handle as they were,
\* whether the read succeeds or fails.
C16_OpenFileKeepsNavigation ==
    [][\A i \in 1..Len(app.files) :
          (~app.files[i].is_dir /\ UpdateOpenFileAt(i))
              => /\ app'.opened_dir = app.opened_dir
                 /\ app'.files = app.files
                 /\ app'.file_name_search = app.file_name_search
                 /\ app'.file_filter_handle = app.file_filter_handle]_vars

\* OpenFile was applied to a file that could not be read while a search text
\* and a filter handle were stored and a child did not match the filter.
C16_Witness ==
    /\ last.kind = "OpenFile"
    /\ last.case = "file"
    /\ ~app.opened_file_contents.ok
    /\ app.file_name_search # <<>>
    /\ IsSome(app.file_filter_handle)
    /\ \E i \in 1..Len(app.files) : ~app.files[i].matches_filters

\* C15: OpenContextMenu(OpenFileInfoModal(index)) with an index that is not
\* valid in files leaves the state unchanged: file_info_modal_open and
\* file_info_modal_node keep their values.
C15_InvalidIndexIsNoOp ==
    [][(UpdateOpenContextMenu /\ last'.case = "invalid")
          => /\ app'.file_info_modal_open = app.file_info_modal_open
             /\ app'.file_info_modal_node = app.file_info_modal_node
             /\ app' = app]_vars

\* C17: DebouncedSearch changes only the stored search text and the filter
\* handle, the passing of the 500 ms changes no field of the application
\* state, and files (with its matches_filters flags) changes only when
\* SearchByFilename is applied or a directory is listed.
C17_OnlySearchByFilenameFilters ==
    [][/\ UpdateDebouncedSearch
            => /\ app' = [app EXCEPT !.file_name_search = app'.file_name_search,
                                     !.file_filter_handle = app'.file_filter_handle]
               /\ \A i \in 1..Len(app.files) :
                     app'.files[i].matches_filters = app.files[i].matches_filters
       /\ Elapse => app' = app
       /\ app'.files # app.files
            => \/ UpdateSearchByFilename
               \/ (UpdateOpenFile \/ UpdateGoBack) /\ last'.case = "dir"]_vars

\* DebouncedSearch(" A") was applied, it is the stored text, and the child B.t,
\* which that text does not match, still matches the filter.
C17_Witness ==
    /\ last.kind = "DebouncedSearch"
    /\ last.text = <<32, 65>>
    /\ app.file_name_search = <<32, 65>>
    /\ app.file_filter_handle = Some(Len(tasks))
    /\ \E i \in 1..Len(app.files) :
          app.files[i].file_name = NameBt /\ app.files[i].matches_filters

\* C19: CloseFile sets opened_file to None, opened_file_contents to Ok("") and
\* opened_file_type to None, and leaves opened_dir, files, the search text,
\* the filter handle and the modal fields unchanged.
C19_CloseFileClearsOnlyTheFile ==
    [][UpdateCloseFile
          => /\ app'.opened_file = None
             /\ app'.opened_file_contents = Ok("")
             /\ app'.opened_file_type = None
             /\ app'.opened_dir = app.opened_dir
             /\ app'.files = app.files
             /\ app'.file_name_search = app.file_name_search
             /\ app'.file_filter_handle = app.file_filter_handle
             /\ app'.file_info_modal_node = app.file_info_modal_node
             /\ app'.file_info_modal_open = app.file_info_modal_open
             /\ crashed' = crashed]_vars

\* CloseFile was applied while a file was open, a search text and its handle
\* were stored and the file info modal showed a node.
C19_Witness ==
    /\ last.kind = "CloseFile"
    /\ last.case = "open"
    /\ app.opened_file = None
    /\ app.file_name_search # <<>>
    /\ IsSome(app.file_filter_handle)
    /\ app.file_info_modal_open
    /\ IsSome(app.file_info_modal_node)

\* C20: immediately after OpenFile on a directory node d, opened_dir is d,
\* files is the listing read_dir returned for d, the search text is empty and
\* every child in files has matches_filters = TRUE.
C20_OpenDirEffects ==
    [][\A i \in 1..Len(app.files) :
          (app.files[i].is_dir /\ UpdateOpenFileAt(i))
              => /\ app'.opened_dir = app.files[i]
                 /\ \E e \in EnumChoices(fs, app.files[i].absolute_path, io_errs) :
                       app'.files
                          = read_dir(fs, app.files[i].absolute_path, e.order, e.err_at).v
                 /\ Nodes(app'.files) \subseteq Constructible(fs, app.files[i].absolute_path)
                 /\ app'.file_name_search = <<>>
                 /\ \A k \in 1..Len(app'.files) : app'.files[k].matches_filters]_vars

\* OpenFile was applied to a directory with children after a search text had
\* been stored.
C20_Witness ==
    /\ last.kind = "OpenFile"
    /\ last.case = "dir"
    /\ IsSome(app.file_filter_handle)
    /\ app.file_name_search = <<>>
    /\ Len(app.files) >= 2
    /\ \A k \in 1..Len(app.files) : app.files[k].matches_filters

\* C18: the rendering pass of a frame leaves every field of the application
\* state unchanged, the search text included, and yields at most one action;
\* the state changes of the frame happen in the post_update call after it.
C18_RenderingIsReadOnly ==
    [][/\ EguiRender => (app' = app /\ Len(frame') <= 1)
       /\ app' # app => EguiPostUpdate]_vars

\* No debounce timer is outstanding: every task was aborted or its 500 ms
\* have passed, and no SearchByFilename of a task waits to be applied.
NoTimerOutstanding ==
    /\ \A i \in 1..Len(tasks) : tasks[i].elapsed \/ tasks[i].aborted
    /\ queue = <<>>

\* C21: when no debounce timer is outstanding, each child's matches_filters
\* says whether its lower-cased file_name contains the trimmed lower-cased
\* file_name_search.
C21_FilterAgreesWithSearchText ==
    NoTimerOutstanding
        => \A k \in 1..Len(app.files) :
              app.files[k].matches_filters
                 = contains(to_lowercase(app.files[k].file_name),
                            to_lowercase(trim(app.file_name_search)))

\* C22: when opened_file is None, opened_file_contents is Ok("") and
\* opened_file_type is None.
C22_BrowsingCarriesNoFileState ==
    app.opened_file = None
        => /\ app.opened_file_contents = Ok("")
           /\ app.opened_file_type = None

\* CloseFile was applied while a file was open: opened_file is None again.
C22_Witness ==
    /\ last.kind = "CloseFile"
    /\ last.case = "open"
    /\ app.opened_file = None
    /\ app.opened_file_contents = Ok("")

\* C23: file_info_modal_open is TRUE exactly when file_info_modal_node is
\* Some; OpenFileInfoModal with a valid index sets the node to a copy of the
\* child at that index, and CloseFileInfoModal sets the node to None and open
\* to FALSE.
C23_ModalOpenIffNode ==
    [][/\ app'.file_info_modal_open <=> IsSome(app'.file_info_modal_node)
       /\ (UpdateOpenContextMenu /\ last'.case = "valid")
             => /\ app'.file_info_modal_open
                /\ \E i \in 1..Len(app.files) :
                      app'.file_info_modal_node = Some(app.files[i])
       /\ UpdateCloseFileInfoModal
             => /\ ~app'.file_info_modal_open
                /\ app'.file_info_modal_node = None]_vars

\* The entries of the listing `s`: the nodes without their filter flag.
Unfiltered(s) == [k \in 1..Len(s) |-> [s[k] EXCEPT !.matches_filters = TRUE]]

\* The filesystem is unchanged since files was listed: files holds the entries
\* read_dir returns for opened_dir now.
ListingIsCurrent(a, f) ==
    Unfiltered(a.files)
        = read_dir(f, a.opened_dir.absolute_path,
                   Enumeration(f, a.opened_dir.absolute_path), 0).v

\* The state after GoBack is applied to `a`, the filesystem answering as it
\* does now.
BackFrom(a, f) ==
    IF IsSome(a.opened_dir.parent_folder)
    THEN go_back(a, f, [order |-> Enumeration(f, Unwrap(a.opened_dir.parent_folder)),
                       err_at |-> 0])
    ELSE a

\* OpenFile(index) on the child i followed by GoBack restores the path of
\* opened_dir and the entries of files.
RoundTrip(i) ==
    (/\ app.files[i].is_dir
     /\ ListingIsCurrent(app, fs)
     /\ UpdateOpenFileAt(i))
        => /\ ~go_back_panics(app', fs)
           /\ BackFrom(app', fs).opened_dir.absolute_path = app.opened_dir.absolute_path
           /\ Unfiltered(BackFrom(app', fs).files) = Unfiltered(app.files)

\* C24: with an unchanged filesystem, OpenFile on a directory child of
\* opened_dir followed by GoBack restores opened_dir.absolute_path and the
\* listing in files, for every directory child, also one reached through a
\* symbolic link.
C24_RoundTrip ==
    [][\A i \in 1..Len(app.files) : RoundTrip(i)]_vars

\* C24 as amended: the same for every directory child whose canonical
\* parent_folder is opened_dir.
C24_RoundTripOfOwnChild ==
    [][\A i \in 1..Len(app.files) :
          app.files[i].parent_folder = Some(app.opened_dir.absolute_path)
              => RoundTrip(i)]_vars

\* OpenFile was applied to the directory A, a child of /h, and GoBack from
\* here lists the three entries of /h again.
C24_Witness ==
    /\ last.kind = "OpenFile"
    /\ last.case = "dir"
    /\ app.opened_dir.absolute_path = PathA
    /\ app.opened_dir.parent_folder = Some(PathH)
    /\ ~go_back_panics(app, fs)
    /\ BackFrom(app, fs).opened_dir.absolute_path = PathH
    /\ Len(BackFrom(app, fs).files) = 3

\* C25: opened_dir is a directory node in every state; it is replaced only
\* when OpenFile or GoBack is applied to a directory target, and OpenFile on a
\* file target leaves it as it is.
C25_OpenedDirIsDirectory ==
    [][/\ app.opened_dir.is_dir
       /\ app'.opened_dir.is_dir
       /\ app'.opened_dir # app.opened_dir
             => (UpdateOpenFile \/ UpdateGoBack) /\ last'.case = "dir"
       /\ (last'.kind = "OpenFile" /\ last'.case = "file" /\ UpdateOpenFile)
             => app'.opened_dir = app.opened_dir]_vars

\* OpenFile was applied to a file target of /h: opened_dir is still the
\* directory /h.
C25_Witness ==
    /\ last.kind = "OpenFile"
    /\ last.case = "file"
    /\ IsSome(app.opened_file)
    /\ ~Unwrap(app.opened_file).is_dir
    /\ app.opened_dir.is_dir
    /\ app.opened_dir.absolute_path = PathH

====
